---- MODULE Spec2Model ----
(***************************************************************************)
(* A model of the S3 example clients of this repository:                   *)
(*   AWSS3      (src/example_boto.py)   boto client, checksum-driven sync  *)
(*   AWSS3Fake  (src/s3fake.py)         filesystem stand-in for AWSS3      *)
(*   S3Session  (src/example_boto3.py)  boto3 client, unconditional copy   *)
(* One behaviour follows one client object (chosen in Init) working on a   *)
(* local filesystem and a remote store (the bucket; for AWSS3Fake the      *)
(* directory tree under basedir).                                          *)
(***************************************************************************)
EXTENDS Integers, Sequences, FiniteSets, TLC

(***************************************************************************)
(* Bounds of the model.                                                    *)
(***************************************************************************)
\* file contents are 0..NumContents; content 0 is the empty file
NumContents == 1
\* longest listing bucket.list_versions returns in the model
MaxVersions == 1
\* longest digest drawn for the stand-alone comparison specification
MaxDigest == 2
\* most segments of a directory path drawn for the path specification
MaxSegments == 2
\* most versions of one key listed by the bucket in the version specification
MaxListed == 2

Contents == 0 .. NumContents
Files == {"f1", "f2"}
LocalDirs == {"d"}
RemoteDirs == {"r"}
\* os.path.join(basedir, filename): a path directly under the bucket root
Root == ""
Clients == {"AWSS3", "AWSS3Fake", "S3Session"}

LocalPaths == LocalDirs \X Files
RemoteKeys == (RemoteDirs \cup {Root}) \X Files

\* a file slot: <<>> when the file does not exist, <<c>> when it holds c
Absent == << >>
File(c) == << c >>
Exists(slot) == Len(slot) > 0
ContentOf(slot) == slot[1]
Slots == {Absent} \cup {File(c) : c \in Contents}

(***************************************************************************)
(* Strings are sequences of one-character strings.                         *)
(***************************************************************************)
DQ == "\""
SQ == "'"
HexChars == << "0", "1", "2", "3", "4", "5", "6", "7", "8", "9" >>
NoHash == << "None" >>

\* hashlib.md5(...).hexdigest(): lowercase hex, one digest per content
_md5_checksum(c) == << "d", HexChars[c + 1] >>

\* the entity tag S3 reports for a single-part object: the quoted MD5
ETagOf(c) == << DQ >> \o _md5_checksum(c) \o << DQ >>

RECURSIVE lstrip(_, _)
lstrip(s, ch) == IF Len(s) > 0 /\ Head(s) = ch THEN lstrip(Tail(s), ch) ELSE s

RECURSIVE rstrip(_, _)
rstrip(s, ch) ==
    IF Len(s) > 0 /\ s[Len(s)] = ch THEN rstrip(SubSeq(s, 1, Len(s) - 1), ch) ELSE s

\* str.strip(ch) for a single character ch
strip(s, ch) == rstrip(lstrip(s, ch), ch)

\* mutant: the entity tag is compared as received, quotes included
StripEtag_keepquotes(etag) == etag

\* self.key.etag.strip('"').strip("'")
StripEtag(etag) == strip(strip(etag, DQ), SQ)

\* mutant: the test is inverted (transfer when equal)
IsModified_inverted(etag, md5) == StripEtag(etag) = md5

\* modified = etag != md5
IsModified(etag, md5) == StripEtag(etag) # md5

VARIABLES
    client,                  \* the class of the client object
    connection_established,  \* AWSS3 / AWSS3Fake attribute
    conn,                    \* self.conn: "unset", "open" or "closed"
    bucket_set,              \* whether self.bucket has been assigned
    key,                     \* self.key of AWSS3
    ldirs,                   \* the local directories that exist
    lfile,                   \* local path -> file slot
    remote,                  \* remote key -> file slot
    last,                    \* what the last call did and returned
    cmp,                     \* stand-alone computation: inputs and result
    probe,                   \* determinism probe: inputs and first outcome
    calls                    \* the calls in flight on one client, step by step

vars == << client, connection_established, conn, bucket_set, key, ldirs, lfile,
           remote, last, cmp, probe, calls >>

(***************************************************************************)
(* Metadata of the two sides, as a call finds them.                        *)
(***************************************************************************)
\* hex digest of the local file ld/f, NoHash when there is no such file
LocalHash(ld, f) ==
    IF << ld, f >> \in LocalPaths /\ Exists(lfile[<< ld, f >>])
    THEN _md5_checksum(ContentOf(lfile[<< ld, f >>]))
    ELSE NoHash

\* entity tag of the remote object rd/f, NoHash when there is no such object
RemoteHash(rd, f) ==
    IF << rd, f >> \in RemoteKeys /\ Exists(remote[<< rd, f >>])
    THEN ETagOf(ContentOf(remote[<< rd, f >>]))
    ELSE NoHash

\* values of self.key
KeyUnset == [st |-> "unset", name |-> << "", "" >>]
KeyBlank == [st |-> "blank", name |-> << "", "" >>]
KeyNone == [st |-> "none", name |-> << "", "" >>]
KeyOf(k) == [st |-> "key", name |-> k]

\* mutant: a key object the client already holds is reused without a lookup
get_key_cached(k) == IF key.st = "key" THEN key ELSE KeyNone

\* self.bucket.get_key(keyname, validate=True): None for a missing object
get_key(k) == IF Exists(remote[k]) THEN KeyOf(k) ELSE KeyNone

\* how a transfer call can end: done, or failed with the destination file
\* intact, left truncated, or removed
FailModes == {"ok", "intact", "truncated", "removed"}

\* the record of a call: its arguments, the metadata it met, what it did
Out(op, ld, rd, f, cs, fetched, transfer, modified, result, outcome, raised) ==
    [op |-> op, ldir |-> ld, rdir |-> rd, file |-> f, checksum |-> cs,
     local |-> LocalHash(ld, f), remote |-> RemoteHash(rd, f),
     fetched |-> fetched, transfer |-> transfer, modified |-> modified,
     result |-> result, outcome |-> outcome, raised |-> raised]

NoCall == Out("init", "", "", "", FALSE, FALSE, "none", "None", "None", "none", "no")

(***************************************************************************)
(* The call history kept for the claims that compare two calls: one probe  *)
(* tuple, fixed in the initial state, the first answer seen for it, and    *)
(* how often it came back (counted to 2).                                  *)
(*   mode "decision": the tuple is (local hash, remote hash, direction,    *)
(*                    checksum flag), the answer the decision taken;       *)
(*   mode "return":   the tuple is (operation, returned value), the answer *)
(*                    the kind of outcome that returned it.                *)
(***************************************************************************)
Unseen == << "unseen" >>

\* the decision of a call: which transfer it started, what it reported as
\* modified, and whether deciding raised
Decision(o) == << o.transfer, o.modified, o.raised = "decide" >>

\* the kind of outcome behind a returned value
Category(o) ==
    CASE o.outcome \in {"success", "no_change"} -> "success"
      [] o.outcome = "soft" -> "soft"
      [] o.outcome = "failed" -> "failed"
      [] OTHER -> "other"

FileOps == {"upload", "download", "delete"}

ProbeTracks(o) ==
    CASE probe.mode = "decision" ->
             o.op \in {"upload", "download"} /\ o.fetched
      [] probe.mode = "return" ->
             o.op \in FileOps /\ Category(o) # "other"
      [] OTHER -> FALSE

ProbeInput(o) ==
    IF probe.mode = "decision"
    THEN << o.local, o.remote, o.op, o.checksum >>
    ELSE << o.op, o.result >>

ProbeAnswer(o) == IF probe.mode = "decision" THEN Decision(o) ELSE << Category(o) >>

Probed(o) ==
    IF ProbeTracks(o) /\ ProbeInput(o) = probe.inp
    THEN [probe EXCEPT !.out = IF @ = Unseen THEN ProbeAnswer(o) ELSE @,
                       !.hits = IF @ < 2 THEN @ + 1 ELSE @]
    ELSE probe

Frame_conn == UNCHANGED << client, connection_established, conn, bucket_set >>

Did(o) == last' = o /\ probe' = Probed(o)

Flag(b) == IF b THEN "True" ELSE "False"

(***************************************************************************)
(* AWSS3 (src/example_boto.py)                                             *)
(***************************************************************************)
\* mutant: an upload to a key that does not exist yet is taken as unchanged
UploadPlan_skipmissing(keyExists, etag, md5) ==
    IF keyExists /\ IsModified(etag, md5)
    THEN [transfer |-> TRUE, modified |-> "True"]
    ELSE [transfer |-> FALSE, modified |-> "False"]

\* upload: the branch on self.key and on the checksums
UploadPlan(keyExists, etag, md5) ==
    IF ~keyExists
    THEN [transfer |-> TRUE, modified |-> "None"]
    ELSE [transfer |-> IsModified(etag, md5),
          modified |-> Flag(IsModified(etag, md5))]

\* mutant: without a local file the checksum branch is still taken
DownloadPlan_skipmissing(dirExists, fileExists, checksum, etag, md5) ==
    IF checksum
    THEN [mkdir |-> ~dirExists, transfer |-> fileExists /\ IsModified(etag, md5),
          modified |-> Flag(fileExists /\ IsModified(etag, md5))]
    ELSE [mkdir |-> ~dirExists, transfer |-> TRUE, modified |-> "None"]

\* _download_from_key: the branch on the destination and on the checksums
DownloadPlan(dirExists, fileExists, checksum, etag, md5) ==
    IF dirExists
    THEN IF fileExists
         THEN IF checksum
              THEN [mkdir |-> FALSE, transfer |-> IsModified(etag, md5),
                    modified |-> Flag(IsModified(etag, md5))]
              ELSE [mkdir |-> FALSE, transfer |-> TRUE, modified |-> "None"]
         ELSE [mkdir |-> FALSE, transfer |-> TRUE, modified |-> "None"]
    ELSE [mkdir |-> TRUE, transfer |-> TRUE, modified |-> "None"]

\* mutant: the call is made again until it goes through
_upload_retry(k, src, fail) ==
    IF Exists(src)
    THEN [remote |-> [remote EXCEPT ![k] = src], result |-> "True",
          outcome |-> "success", raised |-> "no"]
    ELSE [remote |-> remote, result |-> "Raise",
          outcome |-> "raised", raised |-> "transfer"]

\* _upload: key.set_contents_from_filename(src_filepath) on the key k
_upload(k, src, fail) ==
    IF Exists(src) /\ fail = "ok"
    THEN [remote |-> [remote EXCEPT ![k] = src], result |-> "True",
          outcome |-> "success", raised |-> "no"]
    ELSE [remote |-> remote, result |-> "Raise",
          outcome |-> "raised", raised |-> "transfer"]

\* what a failed write leaves at the local path p
AfterFailedWrite(p, fail) ==
    CASE fail = "intact" -> lfile
      [] fail = "truncated" -> [lfile EXCEPT ![p] = File(0)]
      [] OTHER -> [lfile EXCEPT ![p] = Absent]

\* _download: key.get_contents_to_filename(dst_filepath) from the key k
_download(p, k, fail) ==
    IF fail = "ok"
    THEN [lfile |-> [lfile EXCEPT ![p] = remote[k]], result |-> "True",
          outcome |-> "success", raised |-> "no"]
    ELSE [lfile |-> AfterFailedWrite(p, fail), result |-> "Raise",
          outcome |-> "raised", raised |-> "transfer"]

\* _get_latest_version: the first listed version id
_get_latest_version(vl) == IF Len(vl) # 0 THEN vl[1] ELSE "UnboundLocalError"

VersionIds == {"v1", "v2"}
\* bucket.list_versions(prefix=key) of an existing key: never empty
VersionListings ==
    UNION {[1 .. n -> VersionIds] : n \in 1 .. MaxVersions}

AWSS3_upload(ld, rd, f, fail) ==
    /\ client = "AWSS3"
    /\ Frame_conn
    /\ UNCHANGED << ldirs, lfile, cmp, calls >>
    /\ LET src == lfile[<< ld, f >>]
           k == get_key(<< rd, f >>)
           dst == IF k.st = "key" THEN k.name ELSE << rd, f >>
           plan == UploadPlan(k.st = "key", RemoteHash(dst[1], dst[2]),
                              LocalHash(ld, f))
           x == _upload(dst, src, fail)
       IN  IF ~connection_established
           THEN \* _upload_message(False, src_filepath) lacks its third
                \* argument: a TypeError before "return False"
                /\ Did(Out("upload", ld, rd, f, TRUE, FALSE, "none", "None",
                           "Raise", "raised", "fetch"))
                /\ UNCHANGED << key, remote >>
           ELSE IF ~bucket_set
           THEN /\ Did(Out("upload", ld, rd, f, TRUE, FALSE, "none", "None",
                           "Raise", "raised", "fetch"))
                /\ UNCHANGED << key, remote >>
           ELSE IF k.st = "key" /\ ~Exists(src)
           THEN \* _md5_checksum opens a file that is not there
                /\ Did(Out("upload", ld, rd, f, TRUE, TRUE, "none", "None",
                           "Raise", "raised", "decide"))
                /\ key' = k
                /\ UNCHANGED remote
           ELSE IF plan.transfer
           THEN /\ Did(Out("upload", ld, rd, f, TRUE, TRUE, "upload",
                           plan.modified, x.result, x.outcome, x.raised))
                /\ key' = KeyOf(dst)
                /\ remote' = x.remote
           ELSE /\ Did(Out("upload", ld, rd, f, TRUE, TRUE, "none",
                           plan.modified, "True", "no_change", "no"))
                /\ key' = k
                /\ UNCHANGED remote

\* download_file and _download_from_key.  The backup flag only reads the old
\* file into a buffer that _download never uses, so it is no input here.
AWSS3_download_file(rd, ld, f, checksum, versioned, vl, fail) ==
    /\ client = "AWSS3"
    /\ Frame_conn
    /\ UNCHANGED << remote, cmp, calls >>
    /\ LET k == get_key(<< rd, f >>)
           p == << ld, f >>
           plan == DownloadPlan(ld \in ldirs, Exists(lfile[p]), checksum,
                                RemoteHash(k.name[1], k.name[2]), LocalHash(ld, f))
           x == _download(p, k.name, fail)
       IN  IF ~connection_established
           THEN /\ Did(Out("download", ld, rd, f, checksum, FALSE, "none", "None",
                           "False", "failed", "no"))
                /\ UNCHANGED << key, ldirs, lfile >>
           ELSE IF ~bucket_set
           THEN /\ Did(Out("download", ld, rd, f, checksum, FALSE, "none", "None",
                           "Raise", "raised", "fetch"))
                /\ UNCHANGED << key, ldirs, lfile >>
           ELSE IF k.st # "key"
           THEN \* self.key = None, then self.key.name
                /\ Did(Out("download", ld, rd, f, checksum, TRUE, "none", "None",
                           "Raise", "raised", "decide"))
                /\ key' = k
                /\ UNCHANGED << ldirs, lfile >>
           ELSE IF versioned /\ _get_latest_version(vl) = "UnboundLocalError"
           THEN /\ Did(Out("download", ld, rd, f, checksum, TRUE, "none", "None",
                           "Raise", "raised", "decide"))
                /\ key' = k
                /\ UNCHANGED << ldirs, lfile >>
           ELSE IF plan.transfer
           THEN /\ Did(Out("download", ld, rd, f, checksum, TRUE, "download",
                           plan.modified, x.result, x.outcome, x.raised))
                /\ key' = k
                /\ ldirs' = IF plan.mkdir THEN ldirs \cup {ld} ELSE ldirs
                /\ lfile' = x.lfile
           ELSE /\ Did(Out("download", ld, rd, f, checksum, TRUE, "none",
                           plan.modified, "True", "no_change", "no"))
                /\ key' = k
                /\ UNCHANGED << ldirs, lfile >>

\* delete and _delete: key.delete()
AWSS3_delete(rd, f, fail) ==
    /\ client = "AWSS3"
    /\ Frame_conn
    /\ UNCHANGED << ldirs, lfile, cmp, calls >>
    /\ LET k == get_key(<< rd, f >>)
       IN  IF ~connection_established
           THEN /\ Did(Out("delete", "", rd, f, FALSE, FALSE, "none", "None",
                           "False", "failed", "no"))
                /\ UNCHANGED << key, remote >>
           ELSE IF ~bucket_set
           THEN /\ Did(Out("delete", "", rd, f, FALSE, FALSE, "none", "None",
                           "Raise", "raised", "fetch"))
                /\ UNCHANGED << key, remote >>
           ELSE IF k.st # "key"
           THEN /\ Did(Out("delete", "", rd, f, FALSE, TRUE, "none", "None",
                           "None", "soft", "no"))
                /\ key' = k
                /\ UNCHANGED remote
           ELSE IF fail # "ok"
           THEN /\ Did(Out("delete", "", rd, f, FALSE, TRUE, "delete", "None",
                           "Raise", "raised", "transfer"))
                /\ key' = k
                /\ UNCHANGED remote
           ELSE /\ Did(Out("delete", "", rd, f, FALSE, TRUE, "delete", "None",
                           "True", "success", "no"))
                /\ key' = k
                /\ remote' = [remote EXCEPT ![k.name] = Absent]

\* connect, from the attributes (c0, b0, k0): each step ends "ok", with the
\* error its helper catches ("caught": the helper returns False and connect
\* goes on), or with another error ("other": connect gives up)
ConnectFrom(c0, b0, k0, connRes, bucketRes, keyRes) ==
    LET c1 == IF connRes = "ok" THEN "open" ELSE c0
        \* set_bucket reads self.conn: an AttributeError when it was never set
        bucketFails == c1 = "unset" \/ bucketRes = "other"
        b2 == IF bucketRes = "ok" THEN TRUE ELSE b0
        \* _set_key catches the AttributeError of a missing self.bucket
        keyFails == b2 /\ keyRes = "other"
        k3 == IF b2 THEN KeyBlank ELSE k0
    IN  IF connRes = "other"
        THEN [conn |-> c0, bucket_set |-> b0, key |-> k0, established |-> FALSE]
        ELSE IF bucketFails
        THEN [conn |-> c1, bucket_set |-> b0, key |-> k0, established |-> FALSE]
        ELSE IF keyFails
        THEN [conn |-> c1, bucket_set |-> b2, key |-> k0, established |-> FALSE]
        ELSE [conn |-> c1, bucket_set |-> b2, key |-> k3, established |-> TRUE]

StepResults == {"ok", "caught", "other"}
KeyResults == {"ok", "other"}

AWSS3_connect(connRes, bucketRes, keyRes) ==
    /\ client = "AWSS3"
    /\ LET r == ConnectFrom(conn, bucket_set, key, connRes, bucketRes, keyRes)
       IN  /\ conn' = r.conn
           /\ bucket_set' = r.bucket_set
           /\ key' = r.key
           /\ connection_established' = r.established
    /\ Did(Out("connect", "", "", "", FALSE, FALSE, "none", "None", "None", "none", "no"))
    /\ UNCHANGED << client, ldirs, lfile, remote, cmp, calls >>

\* close: self.conn.close(), then the flag
AWSS3_close ==
    /\ client = "AWSS3"
    /\ IF conn = "unset"
       THEN /\ Did(Out("close", "", "", "", FALSE, FALSE, "none", "None", "Raise",
                       "raised", "fetch"))
            /\ UNCHANGED << conn, connection_established >>
       ELSE /\ Did(Out("close", "", "", "", FALSE, FALSE, "none", "None", "None",
                       "none", "no"))
            /\ conn' = "closed"
            /\ connection_established' = FALSE
    /\ UNCHANGED << client, bucket_set, key, ldirs, lfile, remote, cmp, calls >>

\* mutant: reconnect goes straight to connect
ReconnectStart_noclose(established, c) == c

\* reconnect: "if self.connection_established: self.close()" before connect
ReconnectStart(established, c) == IF established THEN "closed" ELSE c

AWSS3_reconnect(connRes, bucketRes, keyRes) ==
    /\ client = "AWSS3"
    /\ IF connection_established /\ conn = "unset"
       THEN \* close raises before anything is reconnected
            /\ Did(Out("reconnect", "", "", "", FALSE, FALSE, "none", "None",
                       "Raise", "raised", "fetch"))
            /\ UNCHANGED << conn, bucket_set, key, connection_established >>
       ELSE LET c0 == ReconnectStart(connection_established, conn)
                r == ConnectFrom(c0, bucket_set, key, connRes, bucketRes, keyRes)
            IN  /\ conn' = r.conn
                /\ bucket_set' = r.bucket_set
                /\ key' = r.key
                /\ connection_established' = r.established
                /\ Did(Out("reconnect", "", "", "", FALSE, FALSE, "none", "None",
                           "None", "none", "no"))
    /\ UNCHANGED << client, ldirs, lfile, remote, cmp, calls >>

\* the record of a connect or reconnect together with how the three steps
\* of connect ended
ConnOut(op, connRes, bucketRes, keyRes) ==
    LET o == Out(op, "", "", "", FALSE, FALSE, "none", "None", "None", "none", "no")
    IN  [x \in DOMAIN o \cup {"steps"} |->
            IF x = "steps" THEN << connRes, bucketRes, keyRes >> ELSE o[x]]

\* connect, with its steps kept in the record
AWSS3_connect_traced(connRes, bucketRes, keyRes) ==
    /\ client = "AWSS3"
    /\ LET r == ConnectFrom(conn, bucket_set, key, connRes, bucketRes, keyRes)
       IN  /\ conn' = r.conn
           /\ bucket_set' = r.bucket_set
           /\ key' = r.key
           /\ connection_established' = r.established
    /\ Did(ConnOut("connect", connRes, bucketRes, keyRes))
    /\ UNCHANGED << client, ldirs, lfile, remote, cmp, calls >>

\* reconnect, with the steps of its connect kept in the record
AWSS3_reconnect_traced(connRes, bucketRes, keyRes) ==
    /\ client = "AWSS3"
    /\ IF connection_established /\ conn = "unset"
       THEN /\ Did(Out("reconnect", "", "", "", FALSE, FALSE, "none", "None",
                       "Raise", "raised", "fetch"))
            /\ UNCHANGED << conn, bucket_set, key, connection_established >>
       ELSE LET c0 == ReconnectStart(connection_established, conn)
                r == ConnectFrom(c0, bucket_set, key, connRes, bucketRes, keyRes)
            IN  /\ conn' = r.conn
                /\ bucket_set' = r.bucket_set
                /\ key' = r.key
                /\ connection_established' = r.established
                /\ Did(ConnOut("reconnect", connRes, bucketRes, keyRes))
    /\ UNCHANGED << client, ldirs, lfile, remote, cmp, calls >>

(***************************************************************************)
(* AWSS3Fake (src/s3fake.py)                                               *)
(***************************************************************************)
\* copy_file: shutil.copyfile inside try/except, onto the path k under basedir
copy_file(src, k, fail) ==
    IF Exists(src) /\ fail = "ok"
    THEN [remote |-> [remote EXCEPT ![k] = src], result |-> "True",
          outcome |-> "success"]
    ELSE IF Exists(src) /\ fail = "truncated"
    THEN [remote |-> [remote EXCEPT ![k] = File(0)], result |-> "False",
          outcome |-> "failed"]
    ELSE IF Exists(src)
    THEN [remote |-> remote, result |-> "False", outcome |-> "failed"]
    ELSE \* copyfile cannot open the source: the same except branch
         [remote |-> remote, result |-> "False", outcome |-> "soft"]

\* download_file: dst_filepath = os.path.join(self.basedir, filename)
FakeDownloadTarget(rd, f) == << Root, f >>

Fake_connect ==
    /\ client = "AWSS3Fake"
    /\ connection_established' = TRUE
    /\ Did(Out("connect", "", "", "", FALSE, FALSE, "none", "None", "None", "none", "no"))
    /\ UNCHANGED << client, conn, bucket_set, key, ldirs, lfile, remote, cmp, calls >>

Fake_close ==
    /\ client = "AWSS3Fake"
    /\ connection_established' = FALSE
    /\ Did(Out("close", "", "", "", FALSE, FALSE, "none", "None", "None", "none", "no"))
    /\ UNCHANGED << client, conn, bucket_set, key, ldirs, lfile, remote, cmp, calls >>

Fake_upload(ld, rd, f, fail) ==
    /\ client = "AWSS3Fake"
    /\ Frame_conn
    /\ UNCHANGED << key, ldirs, lfile, cmp, calls >>
    /\ LET src == lfile[<< ld, f >>]
           k == << rd, f >>
           modified == _md5_checksum(ContentOf(remote[k]))
                           # _md5_checksum(ContentOf(src))
           x == copy_file(src, k, fail)
       IN  IF ~Exists(remote[k])
           THEN /\ Did(Out("upload", ld, rd, f, TRUE, TRUE, "upload", "None",
                           x.result, x.outcome, "no"))
                /\ remote' = x.remote
           ELSE IF ~Exists(src)
           THEN /\ Did(Out("upload", ld, rd, f, TRUE, TRUE, "none", "None",
                           "Raise", "raised", "decide"))
                /\ UNCHANGED remote
           ELSE IF modified
           THEN /\ Did(Out("upload", ld, rd, f, TRUE, TRUE, "upload", "True",
                           x.result, x.outcome, "no"))
                /\ remote' = x.remote
           ELSE /\ Did(Out("upload", ld, rd, f, TRUE, TRUE, "none", "False",
                           "True", "no_change", "no"))
                /\ UNCHANGED remote

Fake_download_file(rd, ld, f, checksum, fail) ==
    /\ client = "AWSS3Fake"
    /\ Frame_conn
    /\ UNCHANGED << key, lfile, cmp, calls >>
    /\ LET src == remote[<< rd, f >>]
           k == FakeDownloadTarget(rd, f)
           modified == _md5_checksum(ContentOf(src))
                           # _md5_checksum(ContentOf(remote[k]))
           x == copy_file(src, k, fail)
       IN  IF ~Exists(src)
           THEN /\ Did(Out("download", ld, rd, f, checksum, TRUE, "none", "None",
                           "False", "soft", "no"))
                /\ UNCHANGED << ldirs, remote >>
           ELSE IF ld \notin ldirs
           THEN /\ Did(Out("download", ld, rd, f, checksum, TRUE, "download", "None",
                           x.result, x.outcome, "no"))
                /\ ldirs' = ldirs \cup {ld}
                /\ remote' = x.remote
           ELSE IF Exists(remote[k]) /\ checksum /\ ~modified
           THEN /\ Did(Out("download", ld, rd, f, checksum, TRUE, "none", "False",
                           "True", "no_change", "no"))
                /\ UNCHANGED << ldirs, remote >>
           ELSE /\ Did(Out("download", ld, rd, f, checksum, TRUE, "download",
                           IF Exists(remote[k]) /\ checksum THEN "True" ELSE "None",
                           x.result, x.outcome, "no"))
                /\ UNCHANGED ldirs
                /\ remote' = x.remote

\* delete is inherited from AWSS3: self.bucket is a string here
Fake_delete(rd, f) ==
    /\ client = "AWSS3Fake"
    /\ Frame_conn
    /\ UNCHANGED << key, ldirs, lfile, remote, cmp, calls >>
    /\ IF ~connection_established
       THEN Did(Out("delete", "", rd, f, FALSE, FALSE, "none", "None",
                    "False", "failed", "no"))
       ELSE Did(Out("delete", "", rd, f, FALSE, FALSE, "none", "None",
                    "Raise", "raised", "fetch"))

(***************************************************************************)
(* S3Session (src/example_boto3.py)                                        *)
(***************************************************************************)
\* mutant: the upload is attempted without testing for the local file
S3UploadSourceExists_unchecked(ld, rd, f) == TRUE

\* upload_file: os.path.exists(src_filepath) is True
S3UploadSourceExists(ld, rd, f) == Exists(lfile[<< ld, f >>])

\* mutant: the 404 is not turned into None, an object comes back for any path
_get_object_unchecked(rd, f) == File(0)

\* _get_object: the object after load(), None on a 404
_get_object(rd, f) == remote[<< rd, f >>]

\* mutant: the destination directory is made before the object is looked at
S3DownloadMkdir_early(objExists, dirExists) == ~dirExists

\* download_file: os.makedirs(dst_directory) runs inside "s3_object is not
\* None", when os.path.exists(dst_directory) is not True
S3DownloadMkdir(objExists, dirExists) == objExists /\ ~dirExists

S3_upload_file(ld, rd, f, fail) ==
    /\ client = "S3Session"
    /\ Frame_conn
    /\ UNCHANGED << key, ldirs, lfile, cmp, calls >>
    /\ IF ~S3UploadSourceExists(ld, rd, f)
       THEN /\ Did(Out("upload", ld, rd, f, FALSE, FALSE, "none", "None",
                       "None", "soft", "no"))
            /\ UNCHANGED remote
       ELSE IF fail = "ok" /\ Exists(lfile[<< ld, f >>])
       THEN /\ Did(Out("upload", ld, rd, f, FALSE, FALSE, "upload", "None",
                       "True", "success", "no"))
            /\ remote' = [remote EXCEPT ![<< rd, f >>] = lfile[<< ld, f >>]]
       ELSE /\ Did(Out("upload", ld, rd, f, FALSE, FALSE, "upload", "None",
                       "False", "failed", "no"))
            /\ UNCHANGED remote

S3_download_file(rd, ld, f, fail) ==
    /\ client = "S3Session"
    /\ Frame_conn
    /\ UNCHANGED << key, remote, cmp, calls >>
    /\ LET obj == _get_object(rd, f)
           p == << ld, f >>
       IN  IF ~Exists(obj)
           THEN /\ Did(Out("download", ld, rd, f, FALSE, TRUE, "none", "None",
                           "None", "soft", "no"))
                /\ ldirs' = IF S3DownloadMkdir(Exists(obj), ld \in ldirs)
                            THEN ldirs \cup {ld}
                            ELSE ldirs
                /\ UNCHANGED lfile
           ELSE IF ld \in ldirs /\ ~Exists(lfile[p])
           THEN \* open(dst_filepath, "rb") of a file that is not there
                /\ Did(Out("download", ld, rd, f, FALSE, TRUE, "none", "None",
                           "Raise", "raised", "decide"))
                /\ UNCHANGED << ldirs, lfile >>
           ELSE IF fail = "ok"
           THEN /\ Did(Out("download", ld, rd, f, FALSE, TRUE, "download", "None",
                           "True", "success", "no"))
                /\ ldirs' = ldirs \cup {ld}
                /\ lfile' = [lfile EXCEPT ![p] = obj]
           ELSE IF ld \in ldirs
           THEN \* the except branch writes backup_data back
                /\ Did(Out("download", ld, rd, f, FALSE, TRUE, "download", "None",
                           "False", "failed", "no"))
                /\ UNCHANGED << ldirs, lfile >>
           ELSE \* backup_data was never bound: open(.., "wb"), then the error
                /\ Did(Out("download", ld, rd, f, FALSE, TRUE, "download", "None",
                           "Raise", "raised", "restore"))
                /\ ldirs' = ldirs \cup {ld}
                /\ lfile' = [lfile EXCEPT ![p] = File(0)]

S3_delete_file(rd, f, fail) ==
    /\ client = "S3Session"
    /\ Frame_conn
    /\ UNCHANGED << key, ldirs, lfile, cmp, calls >>
    /\ LET obj == _get_object(rd, f)
       IN  IF ~Exists(obj)
           THEN /\ Did(Out("delete", "", rd, f, FALSE, TRUE, "none", "None",
                           "None", "soft", "no"))
                /\ UNCHANGED remote
           ELSE IF fail = "ok"
           THEN /\ Did(Out("delete", "", rd, f, FALSE, TRUE, "delete", "None",
                           "True", "success", "no"))
                /\ remote' = [remote EXCEPT ![<< rd, f >>] = Absent]
           ELSE /\ Did(Out("delete", "", rd, f, FALSE, TRUE, "delete", "None",
                           "False", "failed", "no"))
                /\ UNCHANGED remote

(***************************************************************************)
(* S3Session: the metadata getters built on _get_object.  The backend      *)
(* answers a load() truthfully ("200": the object, or a 404 when there is  *)
(* none) or with an error of its own.                                      *)
(***************************************************************************)
BackendCodes == {"200", "403", "500"}

\* result.load(): "ok", or the code of the ClientError it raises
load(rd, f, code) ==
    IF code # "200" THEN code
    ELSE IF Exists(remote[<< rd, f >>]) THEN "ok" ELSE "404"

\* mutant: every ClientError is raised again, the 404 included
NotFoundCode_never(err) == FALSE

\* _get_object: err.response["Error"]["Code"] != "404" raises again
NotFoundCode(err) == err = "404"

\* _get_object with the backend's answer: the object, None (here Absent), or
\* the exception passed on
GetObject(rd, f, code) ==
    LET err == load(rd, f, code)
    IN  IF err = "ok" THEN [raised |-> FALSE, obj |-> remote[<< rd, f >>]]
        ELSE IF NotFoundCode(err) THEN [raised |-> FALSE, obj |-> Absent]
        ELSE [raised |-> TRUE, obj |-> Absent]

\* s3_object.content_length: the number of bytes of the content
content_length(obj) == << ContentOf(obj) >>

\* s3_object.e_tag
e_tag(obj) == ETagOf(ContentOf(obj))

\* mutant: a size is reported whether or not the object was found
get_size_unguarded(obj) == << 0 >>

\* get_size: content_length of the object found, None (Absent) otherwise
get_size(obj) == IF Exists(obj) THEN content_length(obj) ELSE Absent

\* get_etag: e_tag of the object found, None (Absent) otherwise
get_etag(obj) == IF Exists(obj) THEN e_tag(obj) ELSE Absent

\* the record of a getter call: the call record with the backend's answer
\* and the value returned (Absent for None)
MetaOut(op, rd, f, code, raised, value) ==
    LET o == Out(op, "", rd, f, FALSE, TRUE, "none", "None",
                 IF raised THEN "Raise" ELSE "Value",
                 IF raised THEN "raised" ELSE "none",
                 IF raised THEN "fetch" ELSE "no")
    IN  [x \in DOMAIN o \cup {"backend", "value"} |->
            IF x = "backend" THEN code ELSE IF x = "value" THEN value ELSE o[x]]

Frame_meta == UNCHANGED << key, ldirs, lfile, remote, cmp, calls >>

S3_get_object(rd, f, code) ==
    /\ client = "S3Session"
    /\ Frame_conn
    /\ Frame_meta
    /\ LET g == GetObject(rd, f, code)
       IN  Did(MetaOut("_get_object", rd, f, code, g.raised,
                       IF Exists(g.obj) THEN << "Object" >> ELSE Absent))

S3_get_size(rd, f, code) ==
    /\ client = "S3Session"
    /\ Frame_conn
    /\ Frame_meta
    /\ LET g == GetObject(rd, f, code)
       IN  Did(MetaOut("get_size", rd, f, code, g.raised, get_size(g.obj)))

S3_get_etag(rd, f, code) ==
    /\ client = "S3Session"
    /\ Frame_conn
    /\ Frame_meta
    /\ LET g == GetObject(rd, f, code)
       IN  Did(MetaOut("get_etag", rd, f, code, g.raised, get_etag(g.obj)))

S3_key_exists(rd, f, code) ==
    /\ client = "S3Session"
    /\ Frame_conn
    /\ Frame_meta
    /\ LET g == GetObject(rd, f, code)
       IN  Did(MetaOut("_key_exists", rd, f, code, g.raised,
                       << Flag(Exists(g.obj)) >>))

(***************************************************************************)
(* The callers' own file handling (src/tests.py, src/example_boto.py)      *)
(***************************************************************************)
EnvOut(op) == Out(op, "", "", "", FALSE, FALSE, "none", "None", "None", "none", "no")

\* tests.py create_local: open(filepath, "w") and write
create_local(ld, f, c) ==
    /\ ld \in ldirs
    /\ lfile' = [lfile EXCEPT ![<< ld, f >>] = File(c)]
    /\ Did(EnvOut("create_local"))
    /\ Frame_conn
    /\ UNCHANGED << key, ldirs, remote, cmp, calls >>

\* example_boto.py create_local: makedirs for a new file, then write
create_local_boto(ld, f, c) ==
    /\ Exists(lfile[<< ld, f >>]) \/ ld \notin ldirs
    /\ ldirs' = ldirs \cup {ld}
    /\ lfile' = [lfile EXCEPT ![<< ld, f >>] = File(c)]
    /\ Did(EnvOut("create_local"))
    /\ Frame_conn
    /\ UNCHANGED << key, remote, cmp, calls >>

\* delete_local: os.remove when the file exists
delete_local(ld, f) ==
    /\ lfile' = [lfile EXCEPT ![<< ld, f >>] = Absent]
    /\ Did(EnvOut("delete_local"))
    /\ Frame_conn
    /\ UNCHANGED << key, ldirs, remote, cmp, calls >>

(***************************************************************************)
(* The state after construction, and the specification.                    *)
(***************************************************************************)
ProbeOff == [mode |-> "off", inp |-> << >>, out |-> Unseen, hits |-> 0]
CmpOff == [etag |-> << >>, md5 |-> << >>, modified |-> "unset"]

\* a fresh working directory, no call made yet
\* no call is in flight
NoCalls == [th |-> << >>, etag |-> NoHash]

InitLocal ==
    /\ ldirs = {}
    /\ lfile = [p \in LocalPaths |-> Absent]
    /\ last = NoCall
    /\ calls = NoCalls

EmptyBucket == [k \in RemoteKeys |-> Absent]

\* the bucket outlives the client: at construction it may already hold
\* objects under the remote directories
Buckets ==
    {b \in [RemoteKeys -> Slots] : \A k \in RemoteKeys : k[1] = Root => b[k] = Absent}

InitFiles ==
    /\ InitLocal
    /\ remote \in Buckets

\* a client made for a bucket that holds nothing yet
InitEmpty ==
    /\ InitLocal
    /\ remote = EmptyBucket

\* __init__ of each class: AWSS3 and AWSS3Fake end in connect
InitClient ==
    /\ client \in Clients
    /\ IF client = "AWSS3"
       THEN \E cr \in StepResults, br \in StepResults, kr \in KeyResults :
                LET r == ConnectFrom("unset", FALSE, KeyUnset, cr, br, kr)
                IN  /\ conn = r.conn
                    /\ bucket_set = r.bucket_set
                    /\ key = r.key
                    /\ connection_established = r.established
       ELSE /\ conn = "None"
            /\ bucket_set = TRUE
            /\ key = KeyNone
            /\ connection_established = (client = "AWSS3Fake")

Init ==
    /\ InitClient
    /\ InitFiles
    /\ cmp = CmpOff
    /\ probe = ProbeOff

Next ==
    \/ \E cr \in StepResults, br \in StepResults, kr \in KeyResults :
           AWSS3_connect(cr, br, kr)
    \/ AWSS3_close
    \/ AWSS3_reconnect("ok", "ok", "ok")
    \/ \E ld \in LocalDirs, rd \in RemoteDirs, f \in Files, fail \in FailModes :
           AWSS3_upload(ld, rd, f, fail)
    \/ \E ld \in LocalDirs, rd \in RemoteDirs, f \in Files, fail \in FailModes,
          checksum \in BOOLEAN, versioned \in BOOLEAN :
       \E vl \in (IF versioned THEN VersionListings ELSE {<< >>}) :
           AWSS3_download_file(rd, ld, f, checksum, versioned, vl, fail)
    \/ \E rd \in RemoteDirs, f \in Files, fail \in FailModes :
           AWSS3_delete(rd, f, fail)
    \/ Fake_connect
    \/ Fake_close
    \/ \E ld \in LocalDirs, rd \in RemoteDirs, f \in Files, fail \in FailModes :
           Fake_upload(ld, rd, f, fail)
    \/ \E ld \in LocalDirs, rd \in RemoteDirs, f \in Files, fail \in FailModes,
          checksum \in BOOLEAN :
           Fake_download_file(rd, ld, f, checksum, fail)
    \/ \E rd \in RemoteDirs, f \in Files : Fake_delete(rd, f)
    \/ \E ld \in LocalDirs, rd \in RemoteDirs, f \in Files, fail \in FailModes :
           S3_upload_file(ld, rd, f, fail)
    \/ \E ld \in LocalDirs, rd \in RemoteDirs, f \in Files, fail \in FailModes :
           S3_download_file(rd, ld, f, fail)
    \/ \E rd \in RemoteDirs, f \in Files, fail \in FailModes :
           S3_delete_file(rd, f, fail)
    \/ \E ld \in LocalDirs, f \in Files, c \in Contents : create_local(ld, f, c)
    \/ \E ld \in LocalDirs, f \in Files, c \in Contents : create_local_boto(ld, f, c)
    \/ \E ld \in LocalDirs, f \in Files : delete_local(ld, f)

Spec == Init /\ [][Next]_vars

(***************************************************************************)
(* The checksum comparison on its own: an entity tag and a local digest    *)
(* are drawn, and the comparison of upload / _download_from_key is applied.*)
(***************************************************************************)
\* an AWSS3 object whose connect went through
Connected ==
    /\ client = "AWSS3"
    /\ conn = "open"
    /\ bucket_set = TRUE
    /\ key = KeyBlank
    /\ connection_established = TRUE

Strings(alphabet) == UNION {[1 .. n -> alphabet] : n \in 1 .. MaxDigest}

\* hexdigest(): lowercase hexadecimal characters, never a quote
HexDigests == Strings({"0", "a"})

Wrapped(q, s) == << q >> \o s \o << q >>

\* key.etag: a digest as the service sends it, bare or inside a pair of
\* quotes, in either letter case
ETags ==
    LET body == Strings({"0", "a", "A"})
    IN  body \cup {Wrapped(DQ, b) : b \in body} \cup {Wrapped(SQ, b) : b \in body}

InitCmp ==
    /\ Connected
    /\ InitEmpty
    /\ probe = ProbeOff
    /\ \E e \in ETags, m \in HexDigests :
           cmp = [etag |-> e, md5 |-> m, modified |-> "unset"]

\* etag = self.key.etag.strip('"').strip("'"); modified = etag != md5
Compare ==
    /\ cmp.modified = "unset"
    /\ cmp' = [cmp EXCEPT !.modified = Flag(IsModified(cmp.etag, cmp.md5))]
    /\ UNCHANGED << client, connection_established, conn, bucket_set, key, ldirs,
                    lfile, remote, last, probe , calls >>

NextCmp == Compare

SpecCmp == InitCmp /\ [][NextCmp]_vars

(***************************************************************************)
(* One connected AWSS3 object, with the probe recording the decision taken *)
(* for one input tuple.                                                    *)
(***************************************************************************)
\* the tuples a call can meet: upload has no checksum switch, it always
\* compares
DecisionInputs ==
    {i \in ({NoHash} \cup {_md5_checksum(c) : c \in Contents})
              \X ({NoHash} \cup {ETagOf(c) : c \in Contents})
              \X {"upload", "download"} \X BOOLEAN :
        i[3] = "upload" => i[4]}

InitDet ==
    /\ Connected
    /\ InitEmpty
    /\ cmp = CmpOff
    /\ \E i \in DecisionInputs :
           probe = [mode |-> "decision", inp |-> i, out |-> Unseen, hits |-> 0]

NextDet ==
    \/ \E ld \in LocalDirs, rd \in RemoteDirs, f \in Files, fail \in FailModes :
           AWSS3_upload(ld, rd, f, fail)
    \/ \E ld \in LocalDirs, rd \in RemoteDirs, f \in Files, fail \in FailModes,
          checksum \in BOOLEAN, versioned \in BOOLEAN :
       \E vl \in (IF versioned THEN VersionListings ELSE {<< >>}) :
           AWSS3_download_file(rd, ld, f, checksum, versioned, vl, fail)
    \/ \E rd \in RemoteDirs, f \in Files, fail \in FailModes :
           AWSS3_delete(rd, f, fail)
    \/ \E ld \in LocalDirs, f \in Files, c \in Contents : create_local_boto(ld, f, c)
    \/ \E ld \in LocalDirs, f \in Files : delete_local(ld, f)

SpecDet == InitDet /\ [][NextDet]_vars

(***************************************************************************)
(* Any client, with the probe recording the kind of outcome behind one     *)
(* returned value of one operation.                                        *)
(***************************************************************************)
ReturnValues == {"True", "False", "None"}

InitRet ==
    /\ InitClient
    /\ InitEmpty
    /\ cmp = CmpOff
    /\ \E op \in FileOps, v \in ReturnValues :
           probe = [mode |-> "return", inp |-> << op, v >>, out |-> Unseen,
                    hits |-> 0]

\* the file operations of the three clients, the closing of a connection and
\* the callers' file handling
NextRet ==
    \/ AWSS3_close
    \/ \E ld \in LocalDirs, rd \in RemoteDirs, f \in Files, fail \in FailModes :
           AWSS3_upload(ld, rd, f, fail)
    \/ \E ld \in LocalDirs, rd \in RemoteDirs, f \in Files, fail \in FailModes,
          checksum \in BOOLEAN, versioned \in BOOLEAN :
       \E vl \in (IF versioned THEN VersionListings ELSE {<< >>}) :
           AWSS3_download_file(rd, ld, f, checksum, versioned, vl, fail)
    \/ \E rd \in RemoteDirs, f \in Files, fail \in FailModes :
           AWSS3_delete(rd, f, fail)
    \/ Fake_close
    \/ \E ld \in LocalDirs, rd \in RemoteDirs, f \in Files, fail \in FailModes :
           Fake_upload(ld, rd, f, fail)
    \/ \E ld \in LocalDirs, rd \in RemoteDirs, f \in Files, fail \in FailModes,
          checksum \in BOOLEAN :
           Fake_download_file(rd, ld, f, checksum, fail)
    \/ \E rd \in RemoteDirs, f \in Files : Fake_delete(rd, f)
    \/ \E ld \in LocalDirs, rd \in RemoteDirs, f \in Files, fail \in FailModes :
           S3_upload_file(ld, rd, f, fail)
    \/ \E ld \in LocalDirs, rd \in RemoteDirs, f \in Files, fail \in FailModes :
           S3_download_file(rd, ld, f, fail)
    \/ \E rd \in RemoteDirs, f \in Files, fail \in FailModes :
           S3_delete_file(rd, f, fail)
    \/ \E ld \in LocalDirs, f \in Files, c \in Contents : create_local_boto(ld, f, c)
    \/ \E ld \in LocalDirs, f \in Files : delete_local(ld, f)

SpecRet == InitRet /\ [][NextRet]_vars

(***************************************************************************)
(* The two S3Session classes: the one of src/example_boto3.py and the      *)
(* older one kept in src/test_s3.py, whose upload_file tests for the       *)
(* remote object instead of the local file.                                *)
(***************************************************************************)
TestS3 == "test_s3.S3Session"
S3Classes == {"S3Session", TestS3}

\* test_s3.py upload_file: "if s3_object is not None", then upload inside try
test_s3_upload_file(ld, rd, f, fail) ==
    /\ client = TestS3
    /\ Frame_conn
    /\ UNCHANGED << key, ldirs, lfile, cmp, calls >>
    /\ IF ~Exists(_get_object(rd, f))
       THEN /\ Did(Out("upload", ld, rd, f, FALSE, TRUE, "none", "None",
                       "None", "soft", "no"))
            /\ UNCHANGED remote
       ELSE IF fail = "ok" /\ Exists(lfile[<< ld, f >>])
       THEN /\ Did(Out("upload", ld, rd, f, FALSE, TRUE, "upload", "None",
                       "True", "success", "no"))
            /\ remote' = [remote EXCEPT ![<< rd, f >>] = lfile[<< ld, f >>]]
       ELSE /\ Did(Out("upload", ld, rd, f, FALSE, TRUE, "upload", "None",
                       "False", "failed", "no"))
            /\ UNCHANGED remote

\* mutant: the listing names every path ever asked for, stored or not
ListedKeys_stale(rd) == {k \in RemoteKeys : k[1] = rd}

\* self.bucket.objects.filter(Prefix=root): the keys stored under root
ListedKeys(rd) == {k \in RemoteKeys : k[1] = rd /\ Exists(remote[k])}

\* get_contents: the keys under the directory; with include_subdirectories
\* False each key is cut to root/<second segment>, which for the files
\* directly under root is the key itself
S3_get_contents(rd, include_subdirectories) ==
    /\ client = "S3Session"
    /\ Frame_conn
    /\ Frame_meta
    /\ Did(MetaOut("get_contents", rd, "", "200", FALSE, ListedKeys(rd)))

InitS3 ==
    /\ client \in S3Classes
    /\ conn = "None"
    /\ bucket_set = TRUE
    /\ key = KeyNone
    /\ connection_established = FALSE
    /\ InitFiles
    /\ cmp = CmpOff
    /\ probe = ProbeOff

NextS3 ==
    \/ \E ld \in LocalDirs, rd \in RemoteDirs, f \in Files, fail \in FailModes :
           S3_upload_file(ld, rd, f, fail)
    \/ \E ld \in LocalDirs, rd \in RemoteDirs, f \in Files, fail \in FailModes :
           test_s3_upload_file(ld, rd, f, fail)
    \/ \E ld \in LocalDirs, rd \in RemoteDirs, f \in Files, fail \in FailModes :
           S3_download_file(rd, ld, f, fail)
    \/ \E rd \in RemoteDirs, f \in Files, fail \in FailModes :
           S3_delete_file(rd, f, fail)
    \/ \E rd \in RemoteDirs, f \in Files : S3_get_size(rd, f, "200")
    \/ \E rd \in RemoteDirs, f \in Files : S3_get_etag(rd, f, "200")
    \/ \E rd \in RemoteDirs, f \in Files : S3_key_exists(rd, f, "200")
    \/ \E rd \in RemoteDirs, sub \in BOOLEAN : S3_get_contents(rd, sub)
    \/ \E ld \in LocalDirs, f \in Files, c \in Contents : create_local_boto(ld, f, c)
    \/ \E ld \in LocalDirs, f \in Files : delete_local(ld, f)

SpecS3 == InitS3 /\ [][NextS3]_vars

(***************************************************************************)
(* The version a versioned download asks for.  The bucket lists the        *)
(* versions of the key in some order; "v2" is newer than "v1".             *)
(***************************************************************************)
VersionAge(v) == IF v = "v1" THEN 1 ELSE 2

\* bucket.list_versions(prefix=filepath): each version once, in any order
ListedVersions ==
    {vl \in UNION {[1 .. n -> VersionIds] : n \in 0 .. MaxListed} :
        \A i, j \in 1 .. Len(vl) : i # j => vl[i] # vl[j]}

\* the newest of the listed versions
Latest(vl) ==
    CHOOSE v \in {vl[i] : i \in 1 .. Len(vl)} :
        \A i \in 1 .. Len(vl) : VersionAge(vl[i]) <= VersionAge(v)

InitVer ==
    /\ Connected
    /\ InitFiles
    /\ probe = ProbeOff
    /\ \E k \in RemoteKeys, versioned \in BOOLEAN, vl \in ListedVersions :
           /\ Exists(remote[k])
           /\ cmp = [op |-> "none", key |-> k, versioned |-> versioned,
                     listing |-> vl, version |-> << "unset" >>,
                     result |-> "None"]

Frame_ver ==
    UNCHANGED << client, connection_established, conn, bucket_set, key, ldirs,
                 lfile, remote, last, probe, calls >>

\* _get_latest_version on its own: version_list[0], and an unbound name
\* when nothing is listed
AWSS3_get_latest_version ==
    /\ Frame_ver
    /\ cmp' = [cmp EXCEPT
                 !.op = "_get_latest_version",
                 !.version = IF _get_latest_version(cmp.listing) = "UnboundLocalError"
                             THEN << "unset" >>
                             ELSE << _get_latest_version(cmp.listing) >>,
                 !.result = IF _get_latest_version(cmp.listing) = "UnboundLocalError"
                            THEN "Raise" ELSE "Value"]

\* _download_from_key: version = None; with versioned the latest version is
\* looked up and the answer dropped; _download(dst_filepath, version)
AWSS3_download_version ==
    /\ Frame_ver
    /\ cmp' = [cmp EXCEPT
                 !.op = "download",
                 !.version = IF cmp.versioned
                                /\ _get_latest_version(cmp.listing) = "UnboundLocalError"
                             THEN << "unset" >>
                             ELSE NoHash,
                 !.result = IF cmp.versioned
                               /\ _get_latest_version(cmp.listing) = "UnboundLocalError"
                            THEN "Raise" ELSE "True"]

NextVer ==
    \/ AWSS3_get_latest_version
    \/ AWSS3_download_version

SpecVer == InitVer /\ [][NextVer]_vars

(***************************************************************************)
(* An AWSS3 object whose owner connects, closes and reconnects between the *)
(* file operations; the transfers themselves go through.                   *)
(***************************************************************************)
InitConn ==
    /\ client = "AWSS3"
    /\ InitClient
    /\ InitFiles
    /\ cmp = CmpOff
    /\ probe = ProbeOff

NextConn ==
    \/ \E cr \in StepResults, br \in StepResults, kr \in KeyResults :
           AWSS3_connect_traced(cr, br, kr)
    \/ AWSS3_close
    \/ \E cr \in StepResults, br \in StepResults, kr \in KeyResults :
           AWSS3_reconnect_traced(cr, br, kr)
    \/ \E ld \in LocalDirs, rd \in RemoteDirs, f \in Files :
           AWSS3_upload(ld, rd, f, "ok")
    \/ \E ld \in LocalDirs, rd \in RemoteDirs, f \in Files, checksum \in BOOLEAN :
           AWSS3_download_file(rd, ld, f, checksum, FALSE, << >>, "ok")
    \/ \E rd \in RemoteDirs, f \in Files : AWSS3_delete(rd, f, "ok")
    \/ \E ld \in LocalDirs, f \in Files, c \in Contents : create_local_boto(ld, f, c)

SpecConn == InitConn /\ [][NextConn]_vars

(***************************************************************************)
(* A bucket whose transfer calls all fail: every set_contents_from_        *)
(* filename, get_contents_to_filename, upload_file, download_file and      *)
(* delete raises (network, authentication or permission error), while the  *)
(* lookups before them answer.                                             *)
(***************************************************************************)
Faults == FailModes \ {"ok"}

InitFault ==
    /\ Connected \/ (client = "S3Session" /\ InitClient)
    /\ InitFiles
    /\ cmp = CmpOff
    /\ probe = ProbeOff

NextFault ==
    \/ \E ld \in LocalDirs, rd \in RemoteDirs, f \in Files, fail \in Faults :
           AWSS3_upload(ld, rd, f, fail)
    \/ \E ld \in LocalDirs, rd \in RemoteDirs, f \in Files, fail \in Faults,
          checksum \in BOOLEAN :
           AWSS3_download_file(rd, ld, f, checksum, FALSE, << >>, fail)
    \/ \E rd \in RemoteDirs, f \in Files, fail \in Faults :
           AWSS3_delete(rd, f, fail)
    \/ \E ld \in LocalDirs, rd \in RemoteDirs, f \in Files, fail \in Faults :
           S3_upload_file(ld, rd, f, fail)
    \/ \E ld \in LocalDirs, rd \in RemoteDirs, f \in Files, fail \in Faults :
           S3_download_file(rd, ld, f, fail)
    \/ \E rd \in RemoteDirs, f \in Files, fail \in Faults :
           S3_delete_file(rd, f, fail)
    \/ \E ld \in LocalDirs, f \in Files, c \in Contents : create_local_boto(ld, f, c)

SpecFault == InitFault /\ [][NextFault]_vars

(***************************************************************************)
(* Two calls in flight on one connected AWSS3 object, one per thread.      *)
(* Each call runs in three steps, between which the other thread and the   *)
(* owner of the local files may run:                                       *)
(*   lookup  self.key = get_key(path, validate=True)                       *)
(*   decide  the branches on self.key and on the checksums                 *)
(*   act     _upload / _download / _delete, which use self.key again       *)
(* calls.etag is the etag held by the object self.key refers to.           *)
(***************************************************************************)
Threads == {1, 2}

StartCalls ==
    {[op |-> o, ld |-> ld, rd |-> rd, f |-> f, pc |-> "lookup",
      result |-> "pending", content |-> Absent, wrote |-> FALSE] :
        o \in FileOps, ld \in LocalDirs, rd \in RemoteDirs, f \in Files}

InitConc ==
    /\ Connected
    /\ ldirs = {}
    /\ lfile = [p \in LocalPaths |-> Absent]
    /\ last = NoCall
    /\ remote \in Buckets
    /\ cmp = CmpOff
    /\ probe = ProbeOff
    /\ \E c1 \in StartCalls, c2 \in StartCalls :
           calls = [th |-> << c1, c2 >>, etag |-> NoHash]

Frame_thread == Frame_conn /\ UNCHANGED << last, cmp, probe >>

Goto(t, pc, etag) ==
    calls' = [th |-> [calls.th EXCEPT ![t].pc = pc], etag |-> etag]

Return(t, result, content) ==
    calls' = [calls EXCEPT !.th[t].pc = "done", !.th[t].result = result,
                           !.th[t].content = content]

\* mutant: the write is made and the call stays at its transfer step
Stored_again(t, content) ==
    calls' = [calls EXCEPT !.th[t].content = content, !.th[t].wrote = TRUE]

\* the return of a call that has written its content to the bucket
Stored(t, content) ==
    calls' = [calls EXCEPT !.th[t].pc = "done", !.th[t].result = "True",
                           !.th[t].content = content, !.th[t].wrote = TRUE]

\* mutant: the write is acknowledged and the object is left as it was
set_contents_from_filename_lost(k, src) == remote

\* key.set_contents_from_filename: the object named by the key gets the file
set_contents_from_filename(k, src) == [remote EXCEPT ![k] = src]

\* self.key = self.get_key(filepath, validate=True); download_file hands the
\* key on to _download_from_key, which reads key.name of a missing key
Conc_lookup(t) ==
    LET c == calls.th[t]
        k == get_key(<< c.rd, c.f >>)
    IN  /\ c.pc = "lookup"
        /\ Frame_thread
        /\ UNCHANGED << ldirs, lfile, remote >>
        /\ key' = k
        /\ IF c.op = "download" /\ k.st # "key"
           THEN calls' = [th |-> [calls.th EXCEPT ![t].pc = "done",
                                                  ![t].result = "Raise"],
                          etag |-> NoHash]
           ELSE Goto(t, "decide", RemoteHash(c.rd, c.f))

\* upload: "if self.key is None" and the comparison of etag and md5
Conc_decide_upload(t) ==
    LET c == calls.th[t]
        src == lfile[<< c.ld, c.f >>]
        plan == UploadPlan(key.st = "key", calls.etag, LocalHash(c.ld, c.f))
    IN  /\ c.pc = "decide" /\ c.op = "upload"
        /\ Frame_thread
        /\ UNCHANGED << ldirs, lfile, remote >>
        /\ IF key.st # "key"
           THEN /\ key' = KeyOf(<< c.rd, c.f >>)
                /\ Goto(t, "act", NoHash)
           ELSE /\ UNCHANGED key
                /\ IF ~Exists(src) THEN Return(t, "Raise", Absent)
                   ELSE IF plan.transfer THEN Goto(t, "act", calls.etag)
                   ELSE Return(t, "True", << ContentOf(src) >>)

\* _download_from_key: the branches on the destination and on self.key.etag
Conc_decide_download(t) ==
    LET c == calls.th[t]
        p == << c.ld, c.f >>
        plan == DownloadPlan(c.ld \in ldirs, Exists(lfile[p]), TRUE, calls.etag,
                             LocalHash(c.ld, c.f))
    IN  /\ c.pc = "decide" /\ c.op = "download"
        /\ Frame_thread
        /\ UNCHANGED << key, lfile, remote >>
        /\ IF c.ld \in ldirs /\ Exists(lfile[p]) /\ key.st # "key"
           THEN /\ Return(t, "Raise", Absent)
                /\ UNCHANGED ldirs
           ELSE /\ ldirs' = IF plan.mkdir THEN ldirs \cup {c.ld} ELSE ldirs
                /\ IF plan.transfer THEN Goto(t, "act", calls.etag)
                   ELSE Return(t, "True", lfile[p])

\* delete: "if self.key is not None"
Conc_decide_delete(t) ==
    LET c == calls.th[t]
    IN  /\ c.pc = "decide" /\ c.op = "delete"
        /\ Frame_thread
        /\ UNCHANGED << key, ldirs, lfile, remote >>
        /\ IF key.st = "key" THEN Goto(t, "act", calls.etag)
           ELSE Return(t, "None", Absent)

\* _upload: self.key.set_contents_from_filename(src_filepath)
Conc_upload(t) ==
    LET c == calls.th[t]
        src == lfile[<< c.ld, c.f >>]
    IN  /\ c.pc = "act" /\ c.op = "upload"
        /\ Frame_thread
        /\ UNCHANGED << key, ldirs, lfile >>
        /\ IF key.st = "key" /\ Exists(src)
           THEN /\ remote' = set_contents_from_filename(key.name, src)
                /\ Stored(t, << ContentOf(src) >>)
           ELSE /\ UNCHANGED remote
                /\ Return(t, "Raise", Absent)

\* _download: self.key.get_contents_to_filename(dst_filepath)
Conc_download(t) ==
    LET c == calls.th[t]
        p == << c.ld, c.f >>
    IN  /\ c.pc = "act" /\ c.op = "download"
        /\ Frame_thread
        /\ UNCHANGED << key, ldirs, remote >>
        /\ IF key.st = "key" /\ Exists(remote[key.name])
           THEN /\ lfile' = [lfile EXCEPT ![p] = remote[key.name]]
                /\ Return(t, "True", remote[key.name])
           ELSE /\ UNCHANGED lfile
                /\ Return(t, "Raise", Absent)

\* _delete: self.key.delete()
Conc_delete(t) ==
    LET c == calls.th[t]
    IN  /\ c.pc = "act" /\ c.op = "delete"
        /\ Frame_thread
        /\ UNCHANGED << key, ldirs, lfile >>
        /\ IF key.st = "key"
           THEN /\ remote' = [remote EXCEPT ![key.name] = Absent]
                /\ Return(t, "True", Absent)
           ELSE /\ UNCHANGED remote
                /\ Return(t, "Raise", Absent)

NextConc ==
    \/ \E t \in Threads : Conc_lookup(t)
    \/ \E t \in Threads : Conc_decide_upload(t)
    \/ \E t \in Threads : Conc_decide_download(t)
    \/ \E t \in Threads : Conc_decide_delete(t)
    \/ \E t \in Threads : Conc_upload(t)
    \/ \E t \in Threads : Conc_download(t)
    \/ \E t \in Threads : Conc_delete(t)
    \/ \E ld \in LocalDirs, f \in Files, c \in Contents : create_local_boto(ld, f, c)

SpecConc == InitConc /\ [][NextConc]_vars

(***************************************************************************)
(* The paths the methods hand to the bucket.  A path is a sequence of      *)
(* segment names and separators; the caller writes the directory with      *)
(* either separator, os.path.join adds the platform's.                     *)
(***************************************************************************)
FS == "/"
BS == "\\"
Seps == {FS, BS}
Segments == {"a", "b"}

RECURSIVE DirPathsOf(_)
DirPathsOf(n) ==
    IF n = 1 THEN {<< g >> : g \in Segments}
    ELSE {d \o << sep, g >> : d \in DirPathsOf(n - 1), sep \in Seps, g \in Segments}

DirPaths == UNION {DirPathsOf(n) : n \in 1 .. MaxSegments}

\* os.path.join(directory, filename) with the separator os.sep
join(dir, sep, f) == dir \o << sep, f >>

\* str.replace(old, new) for single characters
replace(str, old, new) ==
    [i \in 1 .. Len(str) |-> IF str[i] = old THEN new ELSE str[i]]

\* os.path.join(directory, filename).replace("\\", "/")
posix_filepath(dir, sep, f) == replace(join(dir, sep, f), BS, FS)

PathOps == {"get_key", "get_keys_from_path", "get_all_keynames",
            "download_directory", "_get_object", "get_contents",
            "get_content_names"}

InitPath ==
    /\ Connected \/ (client = "S3Session" /\ InitClient)
    /\ InitEmpty
    /\ probe = ProbeOff
    /\ \E d \in DirPaths, sep \in Seps, f \in Files :
           cmp = [op |-> "none", dir |-> d, sep |-> sep, file |-> f,
                  handed |-> << >>]

Handed(op, path) ==
    /\ cmp' = [cmp EXCEPT !.op = op, !.handed = path]
    /\ UNCHANGED << client, connection_established, conn, bucket_set, key, ldirs,
                    lfile, remote, last, probe , calls >>

\* AWSS3.upload / download_file / delete: the key name given to get_key
AWSS3_key_path ==
    /\ client = "AWSS3"
    /\ Handed("get_key", posix_filepath(cmp.dir, cmp.sep, cmp.file))

\* AWSS3.get_keys_from_path: bucket.list(prefix=path.replace("\\", "/"))
get_keys_from_path ==
    /\ client = "AWSS3"
    /\ Handed("get_keys_from_path", replace(cmp.dir, BS, FS))

\* AWSS3.get_all_keynames: bucket.list(prefix)
get_all_keynames ==
    /\ client = "AWSS3"
    /\ Handed("get_all_keynames", cmp.dir)

\* AWSS3.download_directory: the keys are chosen by key.name.find(src_dir)
download_directory ==
    /\ client = "AWSS3"
    /\ Handed("download_directory", cmp.dir)

\* S3Session._get_object / upload_file: the key of self.s3.Object
S3_object_path ==
    /\ client = "S3Session"
    /\ Handed("_get_object", posix_filepath(cmp.dir, cmp.sep, cmp.file))

\* S3Session.get_contents: objects.filter(Prefix=root)
get_contents ==
    /\ client = "S3Session"
    /\ Handed("get_contents", replace(cmp.dir, BS, FS))

\* S3Session.get_content_names (test_s3.py): objects.filter(Prefix=s3_directory)
get_content_names ==
    /\ client = "S3Session"
    /\ Handed("get_content_names", cmp.dir)

NextPath ==
    \/ AWSS3_key_path
    \/ get_keys_from_path
    \/ get_all_keynames
    \/ download_directory
    \/ S3_object_path
    \/ get_contents
    \/ get_content_names

SpecPath == InitPath /\ [][NextPath]_vars

(***************************************************************************)
(* An S3Session object whose callers upload, delete and ask for metadata.  *)
(***************************************************************************)
InitMeta ==
    /\ client = "S3Session"
    /\ InitClient
    /\ InitFiles
    /\ cmp = CmpOff
    /\ probe = ProbeOff

NextMeta ==
    \/ \E rd \in RemoteDirs, f \in Files, code \in BackendCodes :
           S3_get_object(rd, f, code)
    \/ \E rd \in RemoteDirs, f \in Files, code \in BackendCodes :
           S3_get_size(rd, f, code)
    \/ \E rd \in RemoteDirs, f \in Files, code \in BackendCodes :
           S3_get_etag(rd, f, code)
    \/ \E rd \in RemoteDirs, f \in Files, code \in BackendCodes :
           S3_key_exists(rd, f, code)
    \/ \E ld \in LocalDirs, rd \in RemoteDirs, f \in Files, fail \in FailModes :
           S3_upload_file(ld, rd, f, fail)
    \/ \E rd \in RemoteDirs, f \in Files, fail \in FailModes :
           S3_delete_file(rd, f, fail)
    \/ \E ld \in LocalDirs, f \in Files, c \in Contents : create_local_boto(ld, f, c)

SpecMeta == InitMeta /\ [][NextMeta]_vars

(***************************************************************************)
(* Vocabulary of the claims.  A claim speaks of the documented artifacts   *)
(* of a call: the local file ldir/file and the remote object rdir/file.    *)
(***************************************************************************)
\* the remote entity tag names the same digest as the local hash
SameDigest(localHash, remoteHash) ==
    /\ localHash # NoHash
    /\ remoteHash # NoHash
    /\ remoteHash = << DQ >> \o localHash \o << DQ >>

\* a sync call (upload or download) that looked up its metadata
IsSync(o) == o.op \in {"upload", "download"} /\ o.fetched

SourceHash(o) == IF o.op = "upload" THEN o.local ELSE o.remote
DestHash(o) == IF o.op = "upload" THEN o.remote ELSE o.local

\* the destination of the last call now holds what its source held
DestinationHoldsSource ==
    IF last.op = "upload"
    THEN SameDigest(last.local, RemoteHash(last.rdir, last.file))
    ELSE SameDigest(LocalHash(last.ldir, last.file), last.remote)

\* C1: when both content hashes are equal and checksum is enabled, the sync
\* call (upload or download) skips: no transfer is started, success is
\* returned and "no change" is reported.
C1_EqualHashesSkip ==
    (IsSync(last) /\ last.checksum /\ SameDigest(last.local, last.remote))
        => (last.transfer = "none" /\ last.modified = "False"
            /\ last.result = "True")

\* C2: with checksum enabled and the content hash of either side absent, an
\* AWSS3 upload or download never ends as a skip (success without transfer,
\* reported as "no change").
C2_AbsentHashNeverSkip ==
    (client = "AWSS3" /\ IsSync(last) /\ last.checksum
        /\ (last.local = NoHash \/ last.remote = NoHash))
        => (last.modified # "False" /\ last.outcome # "no_change"
            /\ ~(last.transfer = "none" /\ last.result = "True"))

\* C2 witness: a checksum download met no local file and transferred.
C2_Witness ==
    /\ client = "AWSS3" /\ last.op = "download" /\ last.fetched /\ last.checksum
    /\ last.local = NoHash /\ last.remote # NoHash
    /\ last.transfer = "download" /\ last.result = "True"

\* C3: with checksum disabled, source and destination both existing, the call
\* transfers in the requested direction whatever the hashes, reports neither
\* "updated" nor "no change", and a call that returns True has overwritten
\* the destination with the source.
C3_ChecksumDisabledOverwrites ==
    (IsSync(last) /\ ~last.checksum /\ last.local # NoHash /\ last.remote # NoHash)
        => (/\ last.transfer = last.op
            /\ last.modified = "None"
            /\ (last.result = "True" => DestinationHoldsSource))

\* the source artifact of a call does not exist
SourceMissing(o) == o.op \in {"upload", "download"} /\ SourceHash(o) = NoHash

\* the calls C4 is about: S3Session.upload_file, S3Session.download_file and
\* AWSS3Fake.download_file
C4_InScope(c, o) ==
    \/ c = "S3Session" /\ o.op \in {"upload", "download"}
    \/ c = "AWSS3Fake" /\ o.op = "download"

\* C4: when the source does not exist (the local file of an upload, the
\* remote object of a download), the call starts no transfer, returns its
\* "missing" value (None for S3Session, False for AWSS3Fake.download_file)
\* and leaves every local file, local directory and remote object as it was,
\* whatever the destination holds and whatever the checksum flag.
C4_SourceMissingNoTransfer ==
    /\ [](C4_InScope(client, last) /\ SourceMissing(last)
            => /\ last.transfer = "none"
               /\ last.outcome = "soft"
               /\ last.result = (IF client = "S3Session" THEN "None" ELSE "False"))
    /\ [][C4_InScope(client', last') /\ SourceMissing(last')
            => (lfile' = lfile /\ ldirs' = ldirs /\ remote' = remote)]_vars

\* C4 witness: an upload_file with no local file, while the remote object
\* exists, returned None.
C4_Witness ==
    /\ client = "S3Session" /\ last.op = "upload"
    /\ last.local = NoHash /\ last.remote # NoHash
    /\ last.result = "None" /\ last.transfer = "none"

\* C5: when the source exists and the destination does not, an AWSS3 upload
\* or download starts the transfer in the requested direction, with either
\* checksum setting, reporting neither "updated" nor "no change"; when the
\* call returns True the destination exists and holds the source.
C5_DestinationMissingTransfers ==
    (client = "AWSS3" /\ IsSync(last) /\ SourceHash(last) # NoHash
        /\ DestHash(last) = NoHash)
        => (/\ last.transfer = last.op
            /\ last.modified = "None"
            /\ last.result \in {"True", "Raise"}
            /\ (last.result = "True" => DestinationHoldsSource))

\* C5 witness: an upload to a key that did not exist created it.
C5_Witness ==
    /\ client = "AWSS3" /\ last.op = "upload" /\ last.fetched
    /\ last.local # NoHash /\ last.remote = NoHash
    /\ last.transfer = "upload" /\ last.result = "True"
    /\ Exists(remote[<< last.rdir, last.file >>])

\* the calls C6 is about: AWSS3.upload, AWSS3.download_file, AWSS3Fake.upload
C6_InScope(c, o) ==
    \/ c = "AWSS3" /\ o.op \in {"upload", "download"}
    \/ c = "AWSS3Fake" /\ o.op = "upload"

\* C6: when both sides exist, checksum is enabled and the two hashes differ,
\* the call starts the transfer in the requested direction and reports
\* "updated"; when it returns True the destination's hash equals the
\* source's.
C6_ModifiedTransfers ==
    (C6_InScope(client, last) /\ last.fetched /\ last.checksum
        /\ last.local # NoHash /\ last.remote # NoHash
        /\ ~SameDigest(last.local, last.remote))
        => (/\ last.transfer = last.op
            /\ last.modified = "True"
            /\ (last.result = "True" => DestinationHoldsSource))

\* C6 witness: a checksum download over a differing local file replaced it.
C6_Witness ==
    /\ client = "AWSS3" /\ last.op = "download" /\ last.fetched /\ last.checksum
    /\ last.local # NoHash /\ last.remote # NoHash
    /\ ~SameDigest(last.local, last.remote)
    /\ last.modified = "True" /\ last.result = "True"
    /\ SameDigest(LocalHash(last.ldir, last.file), last.remote)

ToLower(ch) == IF ch = "A" THEN "a" ELSE ch
LowerStr(s) == [i \in 1 .. Len(s) |-> ToLower(s[i])]

\* a hash without the pair of quote characters around it
Bare(s) ==
    IF Len(s) >= 2 /\ s[1] = s[Len(s)] /\ s[1] \in {DQ, SQ}
    THEN SubSeq(s, 2, Len(s) - 1)
    ELSE s

\* C7: the comparison removes the quote characters around the hashes and
\* then tests case-sensitive equality: its result is "not modified" exactly
\* when the two hashes without their quotes are the same string; so a hash
\* inside double or single quotes equals the same hash without quotes, and
\* two hashes that differ only in letter case are unequal.
C7_QuoteStripCaseSensitive ==
    (cmp.modified # "unset")
        => (/\ cmp.modified = Flag(Bare(cmp.etag) # Bare(cmp.md5))
            /\ (cmp.etag \in {cmp.md5, Wrapped(DQ, cmp.md5), Wrapped(SQ, cmp.md5)}
                    => cmp.modified = "False")
            /\ ((Bare(cmp.etag) # cmp.md5
                    /\ LowerStr(Bare(cmp.etag)) = LowerStr(cmp.md5))
                    => cmp.modified = "True"))

\* C7 witness: a double-quoted entity tag compared equal to the bare digest.
C7_Witness ==
    /\ cmp.modified = "False"
    /\ cmp.etag = Wrapped(DQ, cmp.md5)

\* C8: two AWSS3 sync calls that meet the same local hash, remote hash,
\* direction and checksum flag take the same decision (same transfer, same
\* "modified" report, same failure to decide), whatever calls ran between
\* them: a later call with the probe's inputs decides as the first one did.
C8_DecisionDeterministic ==
    (/\ probe.mode = "decision"
     /\ IsSync(last)
     /\ << last.local, last.remote, last.op, last.checksum >> = probe.inp
     /\ probe.out # Unseen)
        => Decision(last) = probe.out

\* C8 witness: the probe's inputs came back a second time, for another file
\* than the client's previous key, and the call skipped as before.
C8_Witness ==
    /\ probe.mode = "decision"
    /\ probe.hits = 2
    /\ IsSync(last)
    /\ << last.local, last.remote, last.op, last.checksum >> = probe.inp
    /\ last.modified = "False"
    /\ last.transfer = "none"

\* C9: the decision of an AWSS3 upload or download never raises: every call
\* that looked up its metadata ends with a classification, also when the
\* remote object or the local file is absent.
C9_DecisionNeverRaises ==
    (client = "AWSS3" /\ IsSync(last)) => last.raised # "decide"

\* C10: for upload, download and delete of one client, a returned value
\* stands for one kind of outcome only (success, soft no-op or failure): a
\* call that returns the probe's value for the probe's operation has the
\* kind of outcome of the first call that returned it.
C10_ReturnValuesDistinguish ==
    (/\ probe.mode = "return"
     /\ last.op \in FileOps
     /\ Category(last) # "other"
     /\ << last.op, last.result >> = probe.inp
     /\ probe.out # Unseen)
        => << Category(last) >> = probe.out

\* C11: deciding has no side effects: an upload or download call of any
\* client that starts no transfer (it skips on equal hashes, finds its
\* source missing, or stops before deciding) leaves every local file, every
\* local directory and every remote object as it was.
C11_SkipChangesNothing ==
    [][(last'.op \in {"upload", "download"} /\ last'.transfer = "none")
          => (lfile' = lfile /\ ldirs' = ldirs /\ remote' = remote)]_vars

\* C11 witness: a download_file of S3Session found no remote object while
\* the destination directory did not exist, and made no directory.
C11_Witness ==
    /\ client = "S3Session" /\ last.op = "download"
    /\ last.remote = NoHash /\ last.transfer = "none"
    /\ last.ldir \notin ldirs

Getters == {"_get_object", "get_size", "get_etag", "_key_exists"}

\* C12: fetching the metadata of a path that does not exist does not raise
\* when the backend answers not-found: _get_object, get_size and get_etag
\* return None and _key_exists returns False; a getter raises only when the
\* backend answered with an error other than 404.
C12_NotFoundIsNoError ==
    (client = "S3Session" /\ last.op \in Getters)
        => (/\ (last.backend = "200" /\ last.remote = NoHash)
                  => (/\ last.result = "Value"
                      /\ last.value = (IF last.op = "_key_exists"
                                       THEN << "False" >> ELSE Absent))
            /\ (last.result = "Raise" <=> last.backend # "200"))

\* C12 witness: get_etag of a path without an object returned None.
C12_Witness ==
    /\ client = "S3Session" /\ last.op = "get_etag"
    /\ last.backend = "200" /\ last.remote = NoHash
    /\ last.result = "Value" /\ last.value = Absent

\* the calls C13 is about: S3Session.delete_file and AWSS3.delete, once the
\* remote object was looked up
C13_IsDelete(c, o) == c \in {"S3Session", "AWSS3"} /\ o.op = "delete" /\ o.fetched

\* C13: delete is idempotent: deleting a path that holds no object raises
\* nothing, returns the soft value None and changes no remote object and no
\* local file; a delete that returned True left no object at the path; and a
\* delete that directly follows a finished delete of the same path returns
\* None and changes nothing.
C13_DeleteIdempotent ==
    /\ []((C13_IsDelete(client, last) /\ last.remote = NoHash)
            => (/\ last.result = "None" /\ last.outcome = "soft"
                /\ last.transfer = "none" /\ last.raised = "no"))
    /\ []((C13_IsDelete(client, last) /\ last.result = "True")
            => RemoteHash(last.rdir, last.file) = NoHash)
    /\ [][(C13_IsDelete(client', last') /\ last'.remote = NoHash)
            => (remote' = remote /\ lfile' = lfile /\ ldirs' = ldirs)]_vars
    /\ [][(/\ C13_IsDelete(client, last) /\ last.result \in {"True", "None"}
           /\ C13_IsDelete(client', last')
           /\ last'.rdir = last.rdir /\ last'.file = last.file)
            => (last'.result = "None" /\ remote' = remote)]_vars

\* C13 witness: a delete_file of a path without an object, while another
\* object is stored, returned None.
C13_Witness ==
    /\ client = "S3Session" /\ last.op = "delete"
    /\ last.remote = NoHash /\ last.result = "None"
    /\ \E k \in RemoteKeys : Exists(remote[k])

\* a download that met an existing remote object and no destination
\* directory
C14_IntoMissingDir(c, o, dirs) ==
    /\ o.op = "download" /\ o.fetched
    /\ o.remote # NoHash
    /\ o.ldir \notin dirs

\* C14: a download whose destination directory does not exist creates the
\* directory and writes the file there: after the call the directory exists,
\* and a call that returns True has left the file dst_dir/filename holding
\* the remote object's content.
C14_DownloadCreatesParent ==
    [][C14_IntoMissingDir(client', last', ldirs)
          => (/\ last'.ldir \in ldirs'
              /\ last'.transfer = "download"
              /\ (last'.result = "True"
                    => (/\ Exists(lfile'[<< last'.ldir, last'.file >>])
                        /\ SameDigest(_md5_checksum(ContentOf(
                                          lfile'[<< last'.ldir, last'.file >>])),
                                      last'.remote))))]_vars

\* C15: every path handed to the bucket (key lookup, upload, download,
\* delete, listing by prefix, choice of the keys of a directory) contains no
\* backslash.
C15_NoBackslashToBackend ==
    (cmp.op \in PathOps) => (\A i \in 1 .. Len(cmp.handed) : cmp.handed[i] # BS)

\* C16: a size or an entity tag returned by get_size / get_etag is present
\* only for an object that exists; for an absent object both are None.
C16_HashOnlyIfExists ==
    (client = "S3Session" /\ last.op \in {"get_size", "get_etag"}
        /\ last.result = "Value")
    => (last.value # Absent <=> Exists(remote[<< last.rdir, last.file >>]))

C16_Witness ==
    /\ client = "S3Session" /\ last.op = "get_size" /\ last.result = "Value"
    /\ last.value = Absent
    /\ ~Exists(remote[<< last.rdir, last.file >>])
    /\ \E k \in RemoteKeys : Exists(remote[k])

\* C17: when the transfer call of an upload, download or delete fails, the
\* caller gets False or the exception, never True and never the None of a
\* missing source, and the call is not made again: the bucket is as it was.
C17_TransportFailurePropagates ==
    [][(last'.op \in FileOps /\ last'.transfer # "none")
          => (/\ last'.result \in {"False", "Raise"}
              /\ last'.outcome \in {"failed", "raised"}
              /\ remote' = remote)]_vars

C17_Witness ==
    /\ client = "S3Session" /\ last.op = "upload" /\ last.transfer = "upload"
    /\ last.result = "False"
    /\ last.local # NoHash /\ last.remote # last.local

\* C18: a download whose transfer fails leaves the destination file with
\* exactly the content it had before the call (no file when there was none)
\* and reports the failure, whatever the destination was before: directory
\* absent, directory without the file, or file present.
C18_FailedDownloadRestores ==
    [][(last'.op = "download" /\ last'.transfer = "download")
          => (/\ lfile'[<< last'.ldir, last'.file >>]
                    = lfile[<< last'.ldir, last'.file >>]
              /\ last'.result \in {"False", "Raise"})]_vars

\* the paths of the two calls in flight
OwnKey(t) == << calls.th[t].rd, calls.th[t].f >>
OwnFile(t) == << calls.th[t].ld, calls.th[t].f >>

\* C19: of two calls on one client for different paths, under every
\* interleaving each call writes or deletes only its own remote object and
\* its own local file, and a download writes what its own object holds.
C19_NoInterference ==
    [][\A t \in Threads :
          (calls'.th[t] # calls.th[t] /\ OwnKey(1) # OwnKey(2))
          => (/\ \A k \in RemoteKeys : remote'[k] # remote[k] => k = OwnKey(t)
              /\ \A p \in LocalPaths :
                    lfile'[p] # lfile[p]
                    => (p = OwnFile(t) /\ lfile'[p] = remote[OwnKey(t)]))]_vars

\* both calls in flight are uploads to one remote path and both returned True
BothUploaded ==
    /\ OwnKey(1) = OwnKey(2)
    /\ \A t \in Threads :
          /\ calls.th[t].op = "upload"
          /\ calls.th[t].pc = "done"
          /\ calls.th[t].result = "True"

\* C20: when two concurrent uploads to one remote path have both returned
\* True, the object holds exactly the content of one of the two callers;
\* there is an interleaving in which the two contents differ, so that one of
\* them is lost without any sign.
C20_LastWriteWins ==
    BothUploaded
    => (/\ Exists(remote[OwnKey(1)])
        /\ << ContentOf(remote[OwnKey(1)]) >>
              \in {calls.th[1].content, calls.th[2].content})

C20_Witness ==
    /\ BothUploaded
    /\ calls.th[1].wrote /\ calls.th[2].wrote
    /\ calls.th[1].content # calls.th[2].content
    /\ << ContentOf(remote[OwnKey(1)]) >> = calls.th[2].content

\* what AWSS3.upload, connected and with a bucket that answers, returns and
\* leaves behind when called in the current state
AWSS3_upload_effect(ld, rd, f) ==
    LET src == lfile[<< ld, f >>]
        k == get_key(<< rd, f >>)
        plan == UploadPlan(k.st = "key", RemoteHash(rd, f), LocalHash(ld, f))
        x == _upload(<< rd, f >>, src, "ok")
    IN  IF k.st = "key" /\ ~Exists(src)
        THEN [result |-> "Raise", lfile |-> lfile, ldirs |-> ldirs, remote |-> remote]
        ELSE IF plan.transfer
        THEN [result |-> x.result, lfile |-> lfile, ldirs |-> ldirs,
              remote |-> x.remote]
        ELSE [result |-> "True", lfile |-> lfile, ldirs |-> ldirs, remote |-> remote]

\* the same for AWSS3.download_file
AWSS3_download_effect(rd, ld, f, checksum) ==
    LET k == get_key(<< rd, f >>)
        p == << ld, f >>
        plan == DownloadPlan(ld \in ldirs, Exists(lfile[p]), checksum,
                             RemoteHash(rd, f), LocalHash(ld, f))
        x == _download(p, << rd, f >>, "ok")
    IN  IF k.st # "key"
        THEN [result |-> "Raise", lfile |-> lfile, ldirs |-> ldirs, remote |-> remote]
        ELSE IF plan.transfer
        THEN [result |-> x.result, lfile |-> x.lfile,
              ldirs |-> IF plan.mkdir THEN ldirs \cup {ld} ELSE ldirs,
              remote |-> remote]
        ELSE [result |-> "True", lfile |-> lfile, ldirs |-> ldirs, remote |-> remote]

\* the AWSS3 effect of the call that last' records, taken in the state before
EffectOf(o) ==
    IF o.op = "upload" THEN AWSS3_upload_effect(o.ldir, o.rdir, o.file)
    ELSE AWSS3_download_effect(o.rdir, o.ldir, o.file, o.checksum)

\* the step is an upload or download whose source exists and whose copy,
\* if any, went through
C21_Served(c, o) ==
    /\ c
    /\ o.op \in {"upload", "download"}
    /\ o.outcome \in {"success", "no_change"}

\* AWSS3's own steps agree with the effect operators (a check of the
\* operators, no claim)
EffectMatchesAWSS3 ==
    [][C21_Served(client' = "AWSS3" /\ connection_established /\ bucket_set, last')
          => (/\ last'.result = EffectOf(last').result
              /\ lfile' = EffectOf(last').lfile
              /\ ldirs' = EffectOf(last').ldirs
              /\ remote' = EffectOf(last').remote)]_vars

\* C21: an upload or download_file of AWSS3Fake returns what AWSS3 returns
\* from the same local and remote contents with the same arguments, and
\* leaves the same local files and the same objects under the remote
\* directories.
C21_FakeMatchesAWSS3 ==
    [][C21_Served(client' = "AWSS3Fake", last')
          => (/\ last'.result = EffectOf(last').result
              /\ lfile' = EffectOf(last').lfile
              /\ \A k \in RemoteKeys :
                    k[1] # Root => remote'[k] = EffectOf(last').remote[k])]_vars

\* C22: upload_file of an S3Session class returns None exactly when the
\* local file does not exist and changes nothing then; when the file exists
\* it returns True with the object holding the file's content, created or
\* overwritten, or returns False with the bucket as it was.
C22_UploadFileContract ==
    [][(client' \in S3Classes /\ last'.op = "upload")
          => (LET src == lfile[<< last'.ldir, last'.file >>]
                  k == << last'.rdir, last'.file >>
              IN  IF Exists(src)
                  THEN \/ /\ last'.result = "True"
                          /\ remote' = [remote EXCEPT ![k] = src]
                       \/ /\ last'.result = "False"
                          /\ remote' = remote
                  ELSE /\ last'.result = "None"
                       /\ remote' = remote)]_vars

\* the same for the class of src/example_boto3.py alone (a check of the
\* newer variant, no claim)
UploadFileContract_example_boto3 ==
    [][(client' = "S3Session" /\ last'.op = "upload")
          => (LET src == lfile[<< last'.ldir, last'.file >>]
                  k == << last'.rdir, last'.file >>
              IN  IF Exists(src)
                  THEN \/ /\ last'.result = "True"
                          /\ remote' = [remote EXCEPT ![k] = src]
                       \/ /\ last'.result = "False"
                          /\ remote' = remote
                  ELSE /\ last'.result = "None"
                       /\ remote' = remote)]_vars

\* the path a call of S3Session was made for holds no object
C23_Gone(c, o) ==
    /\ c = "S3Session"
    /\ << o.rdir, o.file >> \in RemoteKeys
    /\ ~Exists(remote[<< o.rdir, o.file >>])

C24_DownloadFileCreates ==
    [][(client' = "S3Session" /\ last'.op = "download"
          /\ Exists(remote[<< last'.rdir, last'.file >>]))
          => (/\ last'.transfer = "download"
              /\ last'.result \in {"True", "False", "Raise"}
              /\ last'.result = "True"
                    => (/\ last'.ldir \in ldirs'
                        /\ lfile'[<< last'.ldir, last'.file >>]
                              = remote[<< last'.rdir, last'.file >>]))]_vars

\* C25: a download with versioned set passes to the transfer the id of the
\* newest listed version, in whatever order the versions are listed, and
\* with nothing listed passes no version id and does not fail.
C25_LatestVersionFetched ==
    (cmp.op = "download" /\ cmp.versioned)
    => (/\ cmp.result = "True"
        /\ cmp.version = IF Len(cmp.listing) = 0 THEN NoHash
                         ELSE << Latest(cmp.listing) >>)

\* C26: a reconnect of AWSS3 that finds a connection established closes it
\* and then connects, and otherwise only connects: conn, the bucket, the key
\* and connection_established are afterwards what connect makes of the closed
\* (or the untouched) connection; a new connection that could not be opened
\* leaves the closed one, a new connection that was opened stays open.
C26_ReconnectClosesThenConnects ==
    [][(client' = "AWSS3" /\ last'.op = "reconnect" /\ last'.result # "Raise")
          => (LET st == last'.steps
                  r == ConnectFrom(IF connection_established THEN "closed" ELSE conn,
                                   bucket_set, key, st[1], st[2], st[3])
              IN  /\ conn' = r.conn
                  /\ connection_established' = r.established
                  /\ bucket_set' = r.bucket_set
                  /\ (connection_established /\ st[1] # "ok") => conn' = "closed"
                  /\ st[1] = "ok" => conn' = "open")]_vars

C26_Witness ==
    /\ client = "AWSS3" /\ last.op = "reconnect" /\ last.result # "Raise"
    /\ last.steps[1] # "ok"
    /\ conn = "closed" /\ ~connection_established

\* the place of a step in a call
PcRank(pc) ==
    CASE pc = "lookup" -> 1 [] pc = "decide" -> 2 [] pc = "act" -> 3 [] OTHER -> 4

\* C27: a step of an upload or download call moves the call forward, so the
\* transfer step is taken at most once and only after the lookup and the
\* decision; data is moved by the transfer step alone and in the direction
\* of the call (an upload changes no local file, a download no remote
\* object); and the call is finished by its transfer step once it has
\* started one.
C27_OneTransferAfterDecision ==
    [][\A t \in Threads :
          (calls'.th[t] # calls.th[t] /\ calls.th[t].op \in {"upload", "download"})
          => (/\ PcRank(calls'.th[t].pc) > PcRank(calls.th[t].pc)
              /\ calls.th[t].pc = "lookup" => calls'.th[t].pc \in {"decide", "done"}
              /\ calls.th[t].pc = "act" => calls'.th[t].pc = "done"
              /\ calls.th[t].pc # "act" => (remote' = remote /\ lfile' = lfile)
              /\ calls.th[t].op = "upload" => lfile' = lfile
              /\ calls.th[t].op = "download" => remote' = remote)]_vars

C27_Witness ==
    \E t \in Threads :
        /\ calls.th[t].op = "upload" /\ calls.th[t].pc = "done"
        /\ calls.th[t].wrote
        /\ remote[OwnKey(t)] = lfile[OwnFile(t)]

\* C28: a file operation of AWSS3 called while connection_established is
\* false returns False and changes no local file, no local directory, no
\* remote object and not the key attribute.
C28_NotConnectedReturnsFalse ==
    [][(client' = "AWSS3" /\ ~connection_established /\ last'.op \in FileOps)
          => (/\ last'.result = "False"
              /\ lfile' = lfile /\ ldirs' = ldirs /\ remote' = remote
              /\ key' = key)]_vars

\* C29: after a connect or reconnect of AWSS3 connection_established is true
\* exactly when the three steps (connection, bucket, key) all succeeded; when
\* the connection was opened and the bucket or the key step failed, the
\* connection is closed and the flag false; after close the flag is false.
C29_EstablishedIffConnected ==
    /\ (client = "AWSS3" /\ last.op \in {"connect", "reconnect"}
           /\ last.result # "Raise")
        => (/\ connection_established <=> last.steps = << "ok", "ok", "ok" >>
            /\ (last.steps[1] = "ok"
                  /\ (last.steps[2] # "ok" \/ last.steps[3] # "ok"))
                => (conn = "closed" /\ ~connection_established))
    /\ (client = "AWSS3" /\ last.op = "close" /\ last.result # "Raise")
        => ~connection_established

\* the call o of client c is an upload or download with checksum that
\* returned True: an upload or download of AWSS3, an upload of AWSS3Fake
C30_Synced(c, o) ==
    /\ o.result = "True" /\ o.checksum
    /\ \/ c = "AWSS3" /\ o.op \in {"upload", "download"}
       \/ c = "AWSS3Fake" /\ o.op = "upload"

\* the call n follows the call o for the same local and remote path, with
\* checksum, in either direction
C30_Again(o, n) ==
    /\ n.op \in {"upload", "download"} /\ n.checksum
    /\ n.ldir = o.ldir /\ n.rdir = o.rdir /\ n.file = o.file

\* C30: the upload or download with checksum that directly follows, for the
\* same paths, an upload or download with checksum that returned True finds
\* equal hashes on the two sides, starts no transfer and reports no change.
C30_ConvergesInOneStep ==
    [][(C30_Synced(client, last) /\ C30_Again(last, last'))
          => (/\ SameDigest(last'.local, last'.remote)
              /\ last'.transfer = "none"
              /\ last'.modified = "False"
              /\ last'.result = "True")]_vars

\* the same for AWSS3 alone (a check of the real client, no claim)
ConvergesInOneStep_AWSS3 ==
    [][(client = "AWSS3" /\ C30_Synced(client, last) /\ C30_Again(last, last'))
          => (/\ SameDigest(last'.local, last'.remote)
              /\ last'.transfer = "none"
              /\ last'.modified = "False"
              /\ last'.result = "True")]_vars

====
